---- MODULE Spec2Model ----
(***************************************************************************)
(* RecipeManager: the 15gram.be recipe parser (src/BackEnd/gram15_parser.py)*)
(* as a state machine.  A call of an operation takes the machine from       *)
(* pc = "start" to pc = "done"; `called` names the operation and `ret`      *)
(* holds what it returned.  populate_db.main (src/populate_db.py) runs in   *)
(* steps; `db` holds the recipes stored, `exists` is main's local of that   *)
(* name and `saved` lists the records given to save_recipe_to_db.          *)
(*                                                                         *)
(* Text.  A Python str is a sequence of characters, a character is a       *)
(* one-element text such as "a".  The vulgar-fraction glyphs U+00BC..U+215E*)
(* are single characters; they are written here by their names "1/4",      *)
(* "1/2", ... (one character each).                                        *)
(***************************************************************************)
EXTENDS Integers, Sequences, FiniteSets, TLC

VARIABLES pc, called, html, url, line, recipe, ret, db, exists, saved

vars == <<pc, called, html, url, line, recipe, ret, db, exists, saved>>

(***************************************************************************)
(* Python values                                                           *)
(***************************************************************************)

\* Python's None where a str is optional: a value that is no str (its one
\* element is not a character).
None == <<"None">>

\* The characters of an ASCII text.
Chars(s) == [i \in 1..Len(s) |-> SubSeq(s, i, i)]

RECURSIVE Flatten(_)
Flatten(ss) == IF ss = <<>> THEN <<>> ELSE Head(ss) \o Flatten(Tail(ss))

\* n, n-1, ..., 0: the lengths a greedy repetition tries, longest first.
Desc(n) == [i \in 1..(n + 1) |-> n + 1 - i]

Digits == {"0", "1", "2", "3", "4", "5", "6", "7", "8", "9"}

LowerLetters ==
    {"a", "b", "c", "d", "e", "f", "g", "h", "i", "j", "k", "l", "m",
     "n", "o", "p", "q", "r", "s", "t", "u", "v", "w", "x", "y", "z"}

LowerTable ==
    ("A" :> "a") @@ ("B" :> "b") @@ ("C" :> "c") @@ ("D" :> "d") @@
    ("E" :> "e") @@ ("F" :> "f") @@ ("G" :> "g") @@ ("H" :> "h") @@
    ("I" :> "i") @@ ("J" :> "j") @@ ("K" :> "k") @@ ("L" :> "l") @@
    ("M" :> "m") @@ ("N" :> "n") @@ ("O" :> "o") @@ ("P" :> "p") @@
    ("Q" :> "q") @@ ("R" :> "r") @@ ("S" :> "s") @@ ("T" :> "t") @@
    ("U" :> "u") @@ ("V" :> "v") @@ ("W" :> "w") @@ ("X" :> "x") @@
    ("Y" :> "y") @@ ("Z" :> "z")

\* str.lower() on one character; re.I compares characters through it.
Lower(c) == IF c \in DOMAIN LowerTable THEN LowerTable[c] ELSE c

LowerStr(s) == [i \in 1..Len(s) |-> Lower(s[i])]

\* \s of the pattern and the whitespace of str.strip() / str.split().
IsSpace(c) == c \in {" ", "\t", "\n"}

IsDigit(c) == c \in Digits

\* The table of _parse_ingredient_line: glyph -> decimal text.
fraction_map ==
    ("1/4" :> Chars("0.25")) @@ ("1/2" :> Chars("0.5")) @@
    ("3/4" :> Chars("0.75")) @@ ("1/7" :> Chars("0.142857")) @@
    ("1/9" :> Chars("0.111111")) @@ ("1/10" :> Chars("0.1")) @@
    ("1/3" :> Chars("0.333333")) @@ ("2/3" :> Chars("0.666667")) @@
    ("1/5" :> Chars("0.2")) @@ ("2/5" :> Chars("0.4")) @@
    ("3/5" :> Chars("0.6")) @@ ("4/5" :> Chars("0.8")) @@
    ("1/6" :> Chars("0.166667")) @@ ("5/6" :> Chars("0.833333")) @@
    ("1/8" :> Chars("0.125")) @@ ("3/8" :> Chars("0.375")) @@
    ("5/8" :> Chars("0.625")) @@ ("7/8" :> Chars("0.875"))

\* The glyph alternatives of the pattern's amount group.
Glyphs ==
    {"1/4", "1/2", "3/4", "1/7", "1/9", "1/10", "1/3", "2/3", "1/5",
     "2/5", "3/5", "4/5", "1/6", "5/6", "1/8", "3/8", "5/8", "7/8"}

\* \w of the pattern (Unicode): letters, digits, "_" and numeric
\* characters, which the fraction glyphs are.
IsWordChar(c) ==
    \/ Lower(c) \in LowerLetters
    \/ c \in Digits
    \/ c = "_"
    \/ c \in Glyphs

\* str.strip()
Strip(s) ==
    LET keep == {i \in 1..Len(s) : ~IsSpace(s[i])}
    IN  IF keep = {} THEN <<>>
        ELSE LET lo == CHOOSE i \in keep : \A j \in keep : i <= j
                 hi == CHOOSE i \in keep : \A j \in keep : i >= j
             IN  SubSeq(s, lo, hi)

\* str.split(None, 1): the first word and, when something other than
\* whitespace follows it, the rest from its first non-blank character on.
Split1(s) ==
    LET keep == {i \in 1..Len(s) : ~IsSpace(s[i])}
    IN  IF keep = {} THEN <<>>
        ELSE LET lo   == CHOOSE i \in keep : \A j \in keep : i <= j
                 gaps == {i \in lo..Len(s) : IsSpace(s[i])}
             IN  IF gaps = {} THEN <<SubSeq(s, lo, Len(s))>>
                 ELSE LET sp   == CHOOSE i \in gaps : \A j \in gaps : i <= j
                          more == {i \in keep : i > sp}
                      IN  IF more = {} THEN <<SubSeq(s, lo, sp - 1)>>
                          ELSE LET nx == CHOOSE i \in more :
                                            \A j \in more : i <= j
                               IN  <<SubSeq(s, lo, sp - 1),
                                     SubSeq(s, nx, Len(s))>>

(***************************************************************************)
(* The pattern of _parse_ingredient_line, matched the way re.match does:   *)
(* alternatives in order, repetitions greedy, the first way that reaches   *)
(* the end wins.                                                           *)
(***************************************************************************)

\* Which positions of s hold a blank, a digit, a dot or blank, a character
\* other than the line break: the classes \s, \d, [\.\s] and . of the pattern.
SpaceAt(s) == [k \in 1..Len(s) |-> IsSpace(s[k])]

DigitAt(s) == [k \in 1..Len(s) |-> IsDigit(s[k])]

DotOrSpaceAt(s) == [k \in 1..Len(s) |-> s[k] = "." \/ IsSpace(s[k])]

NoLineBreakAt(s) == [k \in 1..Len(s) |-> s[k] # "\n"]

\* The number of consecutive positions of the class from position p on.
Run(class, p) ==
    LET stops == {q \in p..(Len(class) + 1) :
                     /\ \A k \in p..(q - 1) : class[k]
                     /\ (q = Len(class) + 1 \/ ~class[q])}
    IN  (CHOOSE q \in stops : TRUE) - p

\* The literal w (lower case) at position p, case-insensitively.
StartsWithAt(s, p, w) ==
    /\ p + Len(w) - 1 <= Len(s)
    /\ \A i \in 1..Len(w) : Lower(s[p + i - 1]) = w[i]

\* A variant of WordBoundary: the pattern without its \b.
WordBoundary_Dropped(s, p) == TRUE

\* \b at position p: exactly one of the characters around it is a \w.
WordBoundary(s, p) ==
    LET before == p > 1 /\ IsWordChar(s[p - 1])
        after  == p <= Len(s) /\ IsWordChar(s[p])
    IN  before # after

\* The word alternatives of the amount group, in the pattern's order.
AmountWords ==
    <<Chars("een"), Chars("hele"), Chars("halve"), Chars("half"),
      Chars("snuifje")>>

\* The alternatives of the unit group, in the pattern's order.
UnitAlternatives ==
    <<Chars("teentje"), Chars("teentjes"), Chars("gr"), Chars("g"),
      Chars("kg"), Chars("ml"), Chars("cl"), Chars("l"), Chars("el"),
      Chars("tl"), Chars("kl"), Chars("stuk"), Chars("stuks"),
      Chars("stukken"), Chars("snuifje")>>

\* [\.,]?\d* from q, after the leading digits: with the separator and
\* then without it, the digits after it longest first.
NumeralTail(s, q) ==
    (IF q <= Len(s) /\ s[q] \in {".", ","}
     THEN [b \in 1..(Run(DigitAt(s), q + 1) + 1) |->
              q + 1 + Desc(Run(DigitAt(s), q + 1))[b]]
     ELSE <<>>)
    \o [b \in 1..(Run(DigitAt(s), q) + 1) |->
           q + Desc(Run(DigitAt(s), q))[b]]

\* \d+ from p, d1 digits there: the longest run first.
NumeralHead(s, p, d1) ==
    Flatten([a \in 1..d1 |-> NumeralTail(s, p + (d1 + 1 - a))])

\* \d+[\.,]?\d* from p: the positions it can end at, in the order the
\* matcher tries them.
NumeralEnds(s, p) == NumeralHead(s, p, Run(DigitAt(s), p))

\* Group 1 from p: the ends of the alternatives that match, in order.
AmountEnds(s, p) ==
    NumeralEnds(s, p)
    \o (IF p <= Len(s) /\ s[p] \in Glyphs THEN <<p + 1>> ELSE <<>>)
    \o Flatten([k \in 1..Len(AmountWords) |->
            IF StartsWithAt(s, p, AmountWords[k])
            THEN <<p + Len(AmountWords[k])>> ELSE <<>>])

\* Group 2 from p: the ends of the alternatives that match, in order.
UnitEnds(s, p) ==
    Flatten([k \in 1..Len(UnitAlternatives) |->
        IF StartsWithAt(s, p, UnitAlternatives[k])
        THEN <<p + Len(UnitAlternatives[k])>> ELSE <<>>])

\* [\.\s]* from p: where the name group starts.
NameStart(s, p) ==
    p + Run(DotOrSpaceAt(s), p)

\* (.*)$ from p: "." takes no newline, "$" is the end or the place before
\* a final newline.  The end of group 3, or 0 when it cannot match.
NameEnd(s, p) ==
    LET q == p + Run(NoLineBreakAt(s), p)
    IN  IF q = Len(s) + 1 \/ q = Len(s) THEN q ELSE 0

\* The ways through "^\s*(...)?\s*(...)?" in the matcher's order, stage
\* by stage.  An attempt says where each group starts and ends; a group
\* that took no part has end 0.

\* (unit)? at u: each alternative that matches, then no unit.
UnitStage(p, a2, u, uends) ==
    [b \in 1..Len(uends) |->
        [a1 |-> p, a2 |-> a2, u1 |-> u, u2 |-> uends[b]]]

\* \s* after the amount, which ended at e: ws blanks follow, longest
\* first.
BlanksStage(s, p, a2, e, ws) ==
    Flatten([j \in 1..(ws + 1) |->
        UnitStage(p, a2, e + Desc(ws)[j],
                  UnitEnds(s, e + Desc(ws)[j]) \o <<0>>)])

\* Where the text goes on after an amount attempt that ended at a2.
AfterAmount(p, a2) == IF a2 = 0 THEN p ELSE a2

\* (amount)? at p: each alternative that matches, then no amount.
AmountStage(s, p, ends) ==
    Flatten([a \in 1..Len(ends) |->
        BlanksStage(s, p, ends[a], AfterAmount(p, ends[a]),
                    Run(SpaceAt(s), AfterAmount(p, ends[a])))])

\* ^\s*: lead blanks at the start, longest first.
LeadStage(s, lead) ==
    Flatten([i \in 1..(lead + 1) |->
        AmountStage(s, 1 + Desc(lead)[i],
                    AmountEnds(s, 1 + Desc(lead)[i]) \o <<0>>)])

Attempts(s) == LeadStage(s, Run(SpaceAt(s), 1))

\* Where the unit group of attempt t ends (where it starts, if it took no
\* part).
UnitEnd(t) == IF t.u2 = 0 THEN t.u1 ELSE t.u2

\* An attempt goes through when \b holds after the unit group and the
\* rest of the pattern reaches the end of the line.
Succeeds(s, t) ==
    /\ WordBoundary(s, UnitEnd(t))
    /\ NameEnd(s, NameStart(s, UnitEnd(t))) # 0

RECURSIVE FirstSuccess(_, _)
FirstSuccess(s, ts) ==
    IF ts = <<>> THEN <<>>
    ELSE IF Succeeds(s, Head(ts)) THEN <<Head(ts)>>
    ELSE FirstSuccess(s, Tail(ts))

\* match.group(1..3) of the attempt t whose name group starts at n.
Groups(s, t, n) ==
    [matched |-> TRUE,
     g1 |-> IF t.a2 = 0 THEN None ELSE SubSeq(s, t.a1, t.a2 - 1),
     g2 |-> IF t.u2 = 0 THEN None ELSE SubSeq(s, t.u1, t.u2 - 1),
     g3 |-> SubSeq(s, n, NameEnd(s, n) - 1)]

MatchOf(s, found) ==
    IF found = <<>>
    THEN [matched |-> FALSE, g1 |-> None, g2 |-> None, g3 |-> None]
    ELSE Groups(s, found[1], NameStart(s, UnitEnd(found[1])))

\* regex.match(line): whether it matched and match.group(1..3).
RegexMatch(s) == MatchOf(s, FirstSuccess(s, Attempts(s)))

(***************************************************************************)
(* FifteenGramParser._normalize_unit and _parse_ingredient_line            *)
(***************************************************************************)

unit_map ==
    (Chars("gr") :> Chars("g")) @@ (Chars("g") :> Chars("g")) @@
    (Chars("kg") :> Chars("kg")) @@ (Chars("ml") :> Chars("ml")) @@
    (Chars("cl") :> Chars("cl")) @@ (Chars("l") :> Chars("l")) @@
    (Chars("el") :> Chars("el")) @@ (Chars("tl") :> Chars("tl")) @@
    (Chars("kl") :> Chars("kl")) @@ (Chars("stuk") :> Chars("stuks")) @@
    (Chars("stuks") :> Chars("stuks")) @@
    (Chars("stukken") :> Chars("stuks")) @@
    (Chars("teentje") :> Chars("teentje")) @@
    (Chars("teentjes") :> Chars("teentje")) @@
    (Chars("snuifje") :> Chars("snuifje"))

\* A variant of _normalize_unit: the key is not lower-cased.
_normalize_unit_NoLower(unit) ==
    IF unit = None \/ unit = <<>> THEN None
    ELSE LET key == Strip(unit)
         IN  IF key \in DOMAIN unit_map THEN unit_map[key] ELSE key

_normalize_unit(unit) ==
    IF unit = None \/ unit = <<>> THEN None
    ELSE LET key == LowerStr(Strip(unit))
         IN  IF key \in DOMAIN unit_map THEN unit_map[key] ELSE key

IngredientData(raw_text, amount, unit, name) ==
    [raw_text |-> raw_text, amount |-> amount, unit |-> unit, name |-> name]

\* A variant of GroupName: an empty group 3 gives "" instead of None.
GroupName_EmptyString(g3) == Strip(g3)

\* name = match.group(3).strip() if match.group(3) else None
GroupName(g3) == IF g3 # <<>> THEN Strip(g3) ELSE None

\* A variant of ConvertFraction: the glyph is left as it is.
ConvertFraction_Skipped(amount) == amount

\* if amount in fraction_map: amount = fraction_map[amount]
ConvertFraction(amount) ==
    IF Len(amount) = 1 /\ amount[1] \in DOMAIN fraction_map
    THEN fraction_map[amount[1]]
    ELSE amount

\* A variant of InferUnit: the promoted word is left in the name.
InferUnit_KeepsName(amount, unit, name) ==
    IF unit = None /\ amount # None /\ name # None /\ name # <<>>
    THEN LET parts == Split1(name)
         IN  IF Len(parts) > 1 /\ _normalize_unit(parts[1]) # None
             THEN <<_normalize_unit(parts[1]), name>>
             ELSE <<unit, name>>
    ELSE <<unit, name>>

\* The fallback: with an amount, no unit and a name, the first word of the
\* name becomes the unit when _normalize_unit does not return None for it
\* and something follows it.  The <<unit, name>> after this step.
InferUnit(amount, unit, name) ==
    IF unit = None /\ amount # None /\ name # None /\ name # <<>>
    THEN LET parts == Split1(name)
         IN  IF Len(parts) > 1 /\ _normalize_unit(parts[1]) # None
             THEN <<_normalize_unit(parts[1]), parts[2]>>
             ELSE <<unit, name>>
    ELSE <<unit, name>>

\* The branch taken when the pattern does not match: name = line.
Unmatched(l) == IngredientData(l, None, None, l)

\* A variant of Parsed: the line is stored trimmed.
Parsed_RawTextStripped(l, amount, inferred) ==
    IngredientData(Strip(l), amount, inferred[1], inferred[2])

\* IngredientData(raw_text=line, amount=amount, unit=unit, name=name)
\* with the <<unit, name>> the fallback left.
Parsed(l, amount, inferred) ==
    IngredientData(l, amount, inferred[1], inferred[2])

\* The branch taken when the pattern matches.
Matched(l, amount, unit, name) ==
    Parsed(l, amount, InferUnit(amount, unit, name))

ParsedFrom(l, match) ==
    IF match.matched
    THEN Matched(l, ConvertFraction(match.g1), _normalize_unit(match.g2),
                 GroupName(match.g3))
    ELSE Unmatched(l)

_parse_ingredient_line(l) == ParsedFrom(l, RegexMatch(l))

(***************************************************************************)
(* Ingredient lines given to _parse_ingredient_line                        *)
(***************************************************************************)

\* The number of pieces a free line is put together from.
MaxPieces == 3

LinePieces ==
    {Chars("2"), Chars("15"), Chars(","), Chars("."), Chars(" "), <<"\n">>,
     <<"1/2">>, Chars("een"), Chars("snuifje"), Chars("el"), Chars("g"),
     Chars("kip"), Chars("d"), Chars("EL"), Chars("(")}

RECURSIVE Concats(_)
Concats(n) ==
    IF n = 0 THEN {<<>>}
    ELSE LET shorter == Concats(n - 1)
         IN  shorter \cup {x \o y : x \in shorter, y \in LinePieces}

\* Any text of up to MaxPieces pieces: blanks, dots, line breaks and
\* brackets anywhere.
FreeLines == Concats(MaxPieces)

UpperStr(s) ==
    [i \in 1..Len(s) |->
        IF \E c \in DOMAIN LowerTable : LowerTable[c] = s[i]
        THEN CHOOSE c \in DOMAIN LowerTable : LowerTable[c] = s[i]
        ELSE s[i]]

Capitalized(s) == UpperStr(SubSeq(s, 1, 1)) \o SubSeq(s, 2, Len(s))

\* Every unit synonym in lower case, in upper case and capitalized.
UnitTexts ==
    UNION {{u, UpperStr(u), Capitalized(u)} : u \in DOMAIN unit_map}

\* Texts the amount group can bind.
AmountTexts ==
    {<<g>> : g \in Glyphs}
    \cup {Chars("2"), Chars("15"), Chars("1,5"), Chars("2."),
          Chars("een"), Chars("Een"), Chars("hele"), Chars("halve"),
          Chars("half"), Chars("snuifje")}

NameTexts == {Chars("kip"), Chars("rode uien")}

\* "<amount> <unit> <name>" and "<unit> <name>" for every unit synonym,
\* with and without a blank after the amount.
UnitLines ==
    {a \o sep \o u \o Chars(" ") \o n :
        a \in AmountTexts \cup {<<>>}, sep \in {<<>>, Chars(" ")},
        u \in UnitTexts, n \in NameTexts}

\* An amount, a separator, a first word, a separator and the rest: lines
\* on which the unit group binds, fails to bind, or has nothing to bind.
SegmentLines ==
    {a \o s1 \o w \o s2 \o r :
        a \in {<<>>, Chars("2"), Chars("1,5"), <<"3/4">>, Chars("half"),
               Chars("snuifje")},
        s1 \in {<<>>, Chars(" "), Chars("."), Chars(" . "), Chars(", ")},
        w \in {<<>>, Chars("el"), Chars("EL"), Chars("gr"),
               Chars("teentjes"), Chars("snuifje"), Chars("kip"),
               Chars("rode")},
        s2 \in {<<>>, Chars(" "), Chars("  ")},
        r \in {<<>>, Chars("kip"), Chars("rode uien"), Chars("el")}}

Lines == FreeLines \cup UnitLines \cup SegmentLines

(***************************************************************************)
(* The document tree.  BeautifulSoup(html, "html.parser") is lenient: a    *)
(* text that holds no markup gives a tree without elements.  A tree is     *)
(* kept as the answers it gives to the queries the parser makes, each a    *)
(* Tag or None.  A Tag has its name, its text nodes (strings), the value   *)
(* of its content attribute (None when it has none) and its child Tags.    *)
(***************************************************************************)

NoTag == [kind |-> "None"]

Tag(name, strings, content, kids) ==
    [kind |-> "Tag", name |-> name, strings |-> strings,
     content |-> content, kids |-> kids]

\* A Tag is true in a Python condition whatever it holds; None is not.
Truthy(tag) == tag.kind = "Tag"

\* a or b
Or(a, b) == IF Truthy(a) THEN a ELSE b

\* tag.get_text(strip=True): the text nodes, each stripped, the empty ones
\* left out, joined.
RECURSIVE JoinStripped(_)
JoinStripped(strings) ==
    IF strings = <<>> THEN <<>>
    ELSE Strip(Head(strings)) \o JoinStripped(Tail(strings))

get_text(tag) == JoinStripped(tag.strings)

\* hasattr(tag, "get_text"): get_text is a method of every Tag.
hasattr_get_text(tag) == tag.kind = "Tag"

\* tag.has_attr("content")
has_attr_content(tag) == tag.content # None

\* tag.find(name): the first Tag of that name below tag, or None.
find(tag, name) ==
    LET hits == {i \in 1..Len(tag.kids) : tag.kids[i].name = name}
    IN  IF hits = {} THEN NoTag
        ELSE tag.kids[CHOOSE i \in hits : \A j \in hits : i <= j]

\* tag.find_all(name): the Tags of that name below tag, in document order.
RECURSIVE Named(_, _)
Named(kids, name) ==
    IF kids = <<>> THEN <<>>
    ELSE (IF Head(kids).name = name THEN <<Head(kids)>> ELSE <<>>)
         \o Named(Tail(kids), name)

find_all(tag, name) == Named(tag.kids, name)

\* The tree of a text without markup: every query answers None.
EmptyTree ==
    [select_h1_text_center |-> NoTag, find_h1 |-> NoTag,
     select_description_p |-> NoTag, find_meta_description |-> NoTag,
     select_yield |-> NoTag, find_span_yield |-> NoTag,
     select_duration |-> NoTag, find_span_duration |-> NoTag,
     find_div_ingredients |-> NoTag, find_div_preparation |-> NoTag]

\* Whether BeautifulSoup(html, "html.parser") returns a tree.  html.parser
\* takes any text; the rare text it rejects (kind "rejected") makes the
\* constructor raise ParserRejectedMarkup.
Parses(doc) == doc.kind # "rejected"

\* soup = BeautifulSoup(html, "html.parser")
BeautifulSoup(doc) == IF doc.kind = "markup" THEN doc.tree ELSE EmptyTree

(***************************************************************************)
(* FifteenGramParser: the page                                             *)
(***************************************************************************)

CookbookEntryData(title, description, servings, prep_time, src_url) ==
    [title |-> title, description |-> description, servings |-> servings,
     prep_time |-> prep_time, src_url |-> src_url]

RecipeStepData(step_number, instruction) ==
    [step_number |-> step_number, instruction |-> instruction]

RecipeData(cookbook_entry_data, ingredients_data, instructions_data) ==
    [kind |-> "RecipeData",
     cookbook_entry_data |-> cookbook_entry_data,
     ingredients_data |-> ingredients_data,
     instructions_data |-> instructions_data]

\* The description of _parse_entry.
Description(soup) ==
    LET descr_tag == Or(soup.select_description_p,
                        soup.find_meta_description)
    IN  IF Truthy(descr_tag)
        THEN IF hasattr_get_text(descr_tag) THEN get_text(descr_tag)
             ELSE IF has_attr_content(descr_tag) THEN descr_tag.content
             ELSE <<>>
        ELSE <<>>

\* x.get_text(strip=True) if x else ""
TextOrEmpty(tag) == IF Truthy(tag) THEN get_text(tag) ELSE <<>>

_parse_entry(soup, u) ==
    CookbookEntryData(
        TextOrEmpty(Or(soup.select_h1_text_center, soup.find_h1)),
        Description(soup),
        TextOrEmpty(Or(soup.select_yield, soup.find_span_yield)),
        TextOrEmpty(Or(soup.select_duration, soup.find_span_duration)),
        u)

\* A variant of the loop: the test "if txt" is missing, every li is parsed.
IngredientsOf_KeepsEmpty(lis) ==
    [i \in 1..Len(lis) |-> _parse_ingredient_line(get_text(lis[i]))]

\* The loop of _parse_ingredients_from_html over the li Tags.
RECURSIVE IngredientsOf(_)
IngredientsOf(lis) ==
    IF lis = <<>> THEN <<>>
    ELSE LET txt == get_text(Head(lis))
         IN  (IF txt # <<>> THEN <<_parse_ingredient_line(txt)>> ELSE <<>>)
             \o IngredientsOf(Tail(lis))

\* _parse_ingredients(html) hands html to _parse_ingredients_from_html,
\* which parses it again.
_parse_ingredients_from_html(doc) ==
    LET soup == BeautifulSoup(doc)
        u    == soup.find_div_ingredients
    IN  IF Truthy(u)
        THEN LET ul == find(u, "ul")
             IN  IF Truthy(ul) THEN IngredientsOf(find_all(ul, "li"))
                 ELSE <<>>
        ELSE <<>>

\* for idx, li in enumerate(ol.find_all("li"), 1): every li is a step.
StepsOf(lis) ==
    [idx \in 1..Len(lis) |-> RecipeStepData(idx, get_text(lis[idx]))]

_parse_instructions(soup) ==
    LET instructions_ol == soup.find_div_preparation
    IN  IF Truthy(instructions_ol)
        THEN LET ol == find(instructions_ol, "ol")
             IN  IF Truthy(ol) THEN StepsOf(find_all(ol, "li")) ELSE <<>>
        ELSE <<>>

\* A variant of _is_valid_recipe: the instructions are not looked at.
_is_valid_recipe_IgnoresInstructions(r) ==
    LET entry == r.cookbook_entry_data
    IN  /\ entry.title # <<>> /\ Strip(entry.title) # <<>>
        /\ Len(r.ingredients_data) # 0

_is_valid_recipe(r) ==
    LET entry == r.cookbook_entry_data
    IN  IF entry.title = <<>> \/ Strip(entry.title) = <<>> THEN FALSE
        ELSE IF r.ingredients_data = <<>> \/ Len(r.ingredients_data) = 0
        THEN FALSE
        ELSE IF r.instructions_data = <<>> \/ Len(r.instructions_data) = 0
        THEN FALSE
        ELSE TRUE

\* The record parse assembles before the validity check.
Assembled(doc, u) ==
    LET soup == BeautifulSoup(doc)
    IN  RecipeData(_parse_entry(soup, u),
                   _parse_ingredients_from_html(doc),
                   _parse_instructions(soup))

(***************************************************************************)
(* Pages given to the parser                                               *)
(***************************************************************************)

\* The longest ingredient list and the longest instruction list of a page.
MaxIngredients == 2

MaxSteps == 3

Text(s) == Tag("text", <<Chars(s)>>, None, <<>>)

H1(s) == Tag("h1", <<Chars(s)>>, None, <<>>)

\* The title: the answers to select_one("h1.text-center") and find("h1");
\* an h1.text-center is an h1, so find("h1") has an answer when it exists.
TitleAnswers ==
    {<<NoTag, NoTag>>, <<NoTag, H1("Menu")>>,
     <<H1("Soep"), H1("Soep")>>, <<H1("Soep"), H1("Menu")>>,
     <<H1("  "), H1("  ")>>, <<H1("  "), H1("Menu")>>}

DescriptionPs ==
    {NoTag,
     Tag("p", <<Chars("Lekker")>>, None, <<>>),
     Tag("p", <<Chars(" Lekker "), Chars("warm ")>>, None, <<>>)}

\* A meta element has no text nodes.
MetaDescriptions ==
    {NoTag,
     Tag("meta", <<>>, None, <<>>),
     Tag("meta", <<>>, Chars("Soep van de dag"), <<>>)}

YieldAnswers ==
    {<<NoTag, NoTag>>,
     <<NoTag, Tag("span", <<Chars("2")>>, None, <<>>)>>,
     <<Tag("div", <<Chars(" 4 ")>>, None, <<>>), NoTag>>}

DurationAnswers ==
    {<<NoTag, NoTag>>,
     <<NoTag, Tag("span", <<Chars("1 u")>>, None, <<>>)>>,
     <<Tag("span", <<Chars("30 min")>>, None, <<>>),
       Tag("span", <<Chars("30 min")>>, None, <<>>)>>}

Li(strings) == Tag("li", strings, None, <<>>)

IngredientItems ==
    {Li(<<Chars("2 el olie")>>), Li(<<Chars("  ")>>),
     Li(<<Chars("1 "), Chars(" rode ui ")>>)}

StepItems ==
    {Li(<<Chars("Snij de ui")>>), Li(<<Chars(" ")>>),
     Li(<<Chars(" Bak "), Chars("goed")>>)}

RECURSIVE ListsUpTo(_, _)
ListsUpTo(items, n) ==
    IF n = 0 THEN {<<>>}
    ELSE LET shorter == ListsUpTo(items, n - 1)
         IN  shorter \cup {Append(l, x) : l \in shorter, x \in items}

\* A region: no div, a div without its list, a div with its list.
Regions(listName, items, n) ==
    {NoTag, Tag("div", <<>>, None, <<>>),
     Tag("div", <<>>, None, <<Tag("p", <<>>, None, <<>>)>>)}
    \cup {Tag("div", <<>>, None, <<Tag(listName, <<>>, None, lis)>>) :
            lis \in ListsUpTo(items, n)}

Tree(title, p, meta, yield, duration, ingredients, preparation) ==
    [select_h1_text_center |-> title[1], find_h1 |-> title[2],
     select_description_p |-> p, find_meta_description |-> meta,
     select_yield |-> yield[1], find_span_yield |-> yield[2],
     select_duration |-> duration[1], find_span_duration |-> duration[2],
     find_div_ingredients |-> ingredients,
     find_div_preparation |-> preparation]

OneIngredient ==
    Tag("div", <<>>, None,
        <<Tag("ul", <<>>, None, <<Li(<<Chars("2 el olie")>>)>>)>>)

OneStep ==
    Tag("div", <<>>, None,
        <<Tag("ol", <<>>, None, <<Li(<<Chars("Snij de ui")>>)>>)>>)

\* Pages that differ in their metadata.
EntryTrees ==
    {Tree(t, p, m, y, d, OneIngredient, OneStep) :
        t \in TitleAnswers, p \in DescriptionPs, m \in MetaDescriptions,
        y \in YieldAnswers, d \in DurationAnswers}

\* Pages that differ in their lists.
ListTrees ==
    {Tree(t, NoTag, NoTag, <<NoTag, NoTag>>, <<NoTag, NoTag>>, i, s) :
        t \in {<<NoTag, NoTag>>, <<H1("Soep"), H1("Soep")>>},
        i \in Regions("ul", IngredientItems, MaxIngredients),
        s \in Regions("ol", StepItems, MaxSteps)}

\* What parse is given: a page, a text that is no markup, a text the
\* parser rejects.
Documents ==
    {[kind |-> "markup", tree |-> t] : t \in EntryTrees \cup ListTrees}
    \cup {[kind |-> "text", tree |-> EmptyTree],
          [kind |-> "rejected", tree |-> EmptyTree]}

Urls == {"https://15gram.be/recepten/soep"}

(***************************************************************************)
(* The machine                                                             *)
(***************************************************************************)

NoRet == [kind |-> "none"]

NoneRet == [kind |-> "None"]

Raised == [kind |-> "raised"]

\* A call of _parse_ingredient_line on one line.
InitLine ==
    /\ pc = "start"
    /\ called = "none"
    /\ html = [kind |-> "text", tree |-> EmptyTree]
    /\ url = ""
    /\ recipe = NoRet
    /\ line \in Lines
    /\ ret = NoRet
    /\ db = <<>>
    /\ exists = FALSE
    /\ saved = <<>>

ParseIngredientLine ==
    /\ pc = "start"
    /\ pc' = "done"
    /\ called' = "_parse_ingredient_line"
    /\ ret' = _parse_ingredient_line(line)
    /\ UNCHANGED <<html, url, line, recipe, db, exists, saved>>

\* A second call of _parse_ingredient_line, on the raw_text of the
\* IngredientData the first call returned.
ParseRawTextAgain ==
    /\ pc = "done"
    /\ called = "_parse_ingredient_line"
    /\ pc' = "reparsed"
    /\ line' = ret.raw_text
    /\ ret' = _parse_ingredient_line(ret.raw_text)
    /\ UNCHANGED <<called, html, url, recipe, db, exists, saved>>

NextLine == ParseIngredientLine \/ ParseRawTextAgain

SpecLine == InitLine /\ [][NextLine]_vars

\* A call of the parser on one document.
Init ==
    /\ pc = "start"
    /\ called = "none"
    /\ html \in Documents
    /\ url \in Urls
    /\ recipe = NoRet
    /\ line = <<>>
    /\ ret = NoRet
    /\ db = <<>>
    /\ exists = FALSE
    /\ saved = <<>>

\* parse(html, url): the tree, the record, the validity check.  When the
\* constructor raises, nothing catches it.
Parse ==
    /\ pc = "start"
    /\ pc' = "done"
    /\ called' = "parse"
    /\ IF Parses(html)
       THEN /\ recipe' = Assembled(html, url)
            /\ ret' = IF _is_valid_recipe(recipe') THEN recipe' ELSE NoneRet
       ELSE /\ recipe' = recipe
            /\ ret' = Raised
    /\ UNCHANGED <<html, url, line, db, exists, saved>>

ParseEntry ==
    /\ pc = "start"
    /\ Parses(html)
    /\ pc' = "done"
    /\ called' = "_parse_entry"
    /\ ret' = _parse_entry(BeautifulSoup(html), url)
    /\ UNCHANGED <<html, url, line, recipe, db, exists, saved>>

ParseInstructions ==
    /\ pc = "start"
    /\ Parses(html)
    /\ pc' = "done"
    /\ called' = "_parse_instructions"
    /\ ret' = [steps |-> _parse_instructions(BeautifulSoup(html))]
    /\ UNCHANGED <<html, url, line, recipe, db, exists, saved>>

\* _parse_ingredients_from_html(html) builds its own tree from the text; when
\* the constructor raises, nothing catches it.
ParseIngredientsFromHtml ==
    /\ pc = "start"
    /\ pc' = "done"
    /\ called' = "_parse_ingredients_from_html"
    /\ ret' = IF Parses(html)
              THEN [ingredients |-> _parse_ingredients_from_html(html)]
              ELSE Raised
    /\ UNCHANGED <<html, url, line, recipe, db, exists, saved>>

Next == Parse \/ ParseEntry \/ ParseInstructions \/ ParseIngredientsFromHtml

Spec == Init /\ [][Next]_vars

(***************************************************************************)
(* populate_db: fetch, parse, save                                         *)
(***************************************************************************)

\* A call of parse with the positional arguments args (self left out):
\* def parse(self, html: str, url: str) has no defaults, so a call with
\* another number of arguments raises TypeError before the body runs.
parse(args) ==
    IF Len(args) # 2 THEN Raised
    ELSE IF ~Parses(args[1]) THEN Raised
    ELSE IF _is_valid_recipe(Assembled(args[1], args[2]))
    THEN Assembled(args[1], args[2])
    ELSE NoneRet

\* parse_recipe(html): return parser.parse(html)
parse_recipe(html_content) == parse(<<html_content>>)

\* title ILIKE pattern, for a pattern without % and _.
ilike(title, pattern) == LowerStr(title) = LowerStr(pattern)

\* recipe_exists(url, title): a stored entry has that src_url or a title
\* that matches, letter case aside.
recipe_exists(rows, u, title) ==
    \E i \in 1..Len(rows) :
        \/ rows[i].cookbook_entry_data.src_url = u
        \/ ilike(rows[i].cookbook_entry_data.title, title)

\* save_recipe_to_db(recipe): the entry, its recipe, its ingredients and
\* its steps are added in one transaction.
save_recipe_to_db(rows, r) == Append(rows, r)

\* The url and the title main works on.
main_url ==
    "https://15gram.be/recepten/mignonette-met-dragon-champignonsaus-venkel-en-zoete-aardappelfrietjes"

main_title ==
    Chars("Mignonette met dragon, champignonsaus, venkel en zoete aardappelfrietjes")

\* A stored recipe of one ingredient and one step.
Stored(title, u) ==
    RecipeData(CookbookEntryData(title, <<>>, <<>>, <<>>, u),
               <<IngredientData(Chars("zout"), None, None, Chars("zout"))>>,
               <<RecipeStepData(1, Chars("Roer"))>>)

\* What the database holds when main starts: nothing, another recipe, a
\* recipe of that url, a recipe of that title in another letter case.
Databases ==
    {<<>>,
     <<Stored(Chars("Soep"), "https://15gram.be/recepten/soep")>>,
     <<Stored(Chars("Soep"), main_url)>>,
     <<Stored(UpperStr(main_title), "https://15gram.be/recepten/soep")>>}

\* html_content before get_html_content has returned.
NotFetched == [kind |-> "unset", tree |-> EmptyTree]

InitMain ==
    /\ pc = "start"
    /\ called = "none"
    /\ html = NotFetched
    /\ url = main_url
    /\ recipe = NoRet
    /\ line = <<>>
    /\ ret = NoRet
    /\ db \in Databases
    /\ exists = FALSE
    /\ saved = <<>>

\* main, up to the return when the recipe exists: create_all_tables leaves
\* the rows as they are.
MainRecipeExists ==
    /\ pc = "start"
    /\ called' = "main"
    /\ exists' = recipe_exists(db, url, main_title)
    /\ pc' = IF exists' THEN "done" ELSE "fetch"
    /\ UNCHANGED <<html, url, line, recipe, ret, db, saved>>

\* html_content = await get_html_content(url): the text of the response, or
\* the exception of the request or of raise_for_status, which ends main.
MainGetHtmlContent ==
    /\ pc = "fetch"
    /\ \/ \E doc \in Documents : html' = doc /\ pc' = "parse"
       \/ html' = html /\ pc' = "raised"
    /\ UNCHANGED <<called, url, line, recipe, ret, db, exists, saved>>

\* The rest of main: parse_recipe, the return when it gave None, the save.
\* An exception of parse_recipe ends main.
MainParseAndSave ==
    /\ pc = "parse"
    /\ IF parse_recipe(html) = Raised
       THEN /\ pc' = "raised"
            /\ UNCHANGED <<recipe, db, saved>>
       ELSE /\ pc' = "done"
            /\ recipe' = parse_recipe(html)
            /\ IF recipe' = NoneRet
               THEN UNCHANGED <<db, saved>>
               ELSE /\ db' = save_recipe_to_db(db, recipe')
                    /\ saved' = Append(saved, recipe')
    /\ UNCHANGED <<called, html, url, line, ret, exists>>

NextMain == MainRecipeExists \/ MainGetHtmlContent \/ MainParseAndSave

SpecMain == InitMain /\ [][NextMain]_vars

(***************************************************************************)
(* Properties                                                              *)
(***************************************************************************)

Done(op) == pc = "done" /\ called = op

\* C1: parse returns the record it assembled exactly when that record's
\* title is not empty after trimming and it has at least one ingredient
\* and at least one instruction; otherwise it returns None.  So a record
\* with a title, one ingredient and no instruction is rejected, and with
\* one instruction it is returned.
C1_RecordIffValid ==
    Done("parse") /\ recipe.kind = "RecipeData" =>
        LET titled == Strip(recipe.cookbook_entry_data.title) # <<>>
            ni     == Len(recipe.ingredients_data)
            ns     == Len(recipe.instructions_data)
        IN  /\ (titled /\ ni > 0 /\ ns > 0) => ret = recipe
            /\ ~(titled /\ ni > 0 /\ ns > 0) => ret = NoneRet
            /\ (titled /\ ni = 1 /\ ns = 0) => ret = NoneRet
            /\ (titled /\ ni = 1 /\ ns = 1) => ret.kind = "RecipeData"

\* A page with a title, one ingredient and no instruction was rejected.
C1_Witness ==
    /\ Done("parse") /\ recipe.kind = "RecipeData"
    /\ Strip(recipe.cookbook_entry_data.title) # <<>>
    /\ Len(recipe.ingredients_data) = 1
    /\ Len(recipe.instructions_data) = 0
    /\ ret = NoneRet

\* The li Tags of the instruction list of a page, in document order.
InstructionItems(doc) ==
    LET div == BeautifulSoup(doc).find_div_preparation
    IN  IF Truthy(div) /\ Truthy(find(div, "ol"))
        THEN find_all(find(div, "ol"), "li")
        ELSE <<>>

\* The steps the specification asks for: one per item that is not empty
\* after trimming, numbered 1, 2, ... in document order.
NumberedNonEmpty(lis) ==
    LET kept == SelectSeq(lis, LAMBDA li : get_text(li) # <<>>)
    IN  [i \in 1..Len(kept) |-> RecipeStepData(i, get_text(kept[i]))]

\* C2: _parse_instructions gives one step per list item that is not empty
\* after trimming; an empty item is no step and takes no number.  Of
\* three items with the second empty, steps 1 and 2 carry the first and
\* the third item's text.
C2_EmptyItemsTakeNoNumber ==
    Done("_parse_instructions") =>
        ret.steps = NumberedNonEmpty(InstructionItems(html))

\* The canonicalization table as the specification gives it.
CanonicalOf ==
    (Chars("gr") :> Chars("g")) @@ (Chars("g") :> Chars("g")) @@
    (Chars("kg") :> Chars("kg")) @@ (Chars("ml") :> Chars("ml")) @@
    (Chars("cl") :> Chars("cl")) @@ (Chars("l") :> Chars("l")) @@
    (Chars("el") :> Chars("el")) @@ (Chars("tl") :> Chars("tl")) @@
    (Chars("kl") :> Chars("kl")) @@ (Chars("stuk") :> Chars("stuks")) @@
    (Chars("stuks") :> Chars("stuks")) @@
    (Chars("stukken") :> Chars("stuks")) @@
    (Chars("teentje") :> Chars("teentje")) @@
    (Chars("teentjes") :> Chars("teentje")) @@
    (Chars("snuifje") :> Chars("snuifje"))

IsSynonym(w) == LowerStr(w) \in DOMAIN CanonicalOf

CanonicalCodes ==
    {Chars("g"), Chars("kg"), Chars("ml"), Chars("cl"), Chars("l"),
     Chars("el"), Chars("tl"), Chars("kl"), Chars("stuks"),
     Chars("teentje"), Chars("snuifje")}

\* The fraction table as the specification gives it.
DecimalOf ==
    ("1/4" :> Chars("0.25")) @@ ("1/2" :> Chars("0.5")) @@
    ("3/4" :> Chars("0.75")) @@ ("1/7" :> Chars("0.142857")) @@
    ("1/9" :> Chars("0.111111")) @@ ("1/10" :> Chars("0.1")) @@
    ("1/3" :> Chars("0.333333")) @@ ("2/3" :> Chars("0.666667")) @@
    ("1/5" :> Chars("0.2")) @@ ("2/5" :> Chars("0.4")) @@
    ("3/5" :> Chars("0.6")) @@ ("4/5" :> Chars("0.8")) @@
    ("1/6" :> Chars("0.166667")) @@ ("5/6" :> Chars("0.833333")) @@
    ("1/8" :> Chars("0.125")) @@ ("3/8" :> Chars("0.375")) @@
    ("5/8" :> Chars("0.625")) @@ ("7/8" :> Chars("0.875"))

\* The words of a text, split at whitespace.
RECURSIVE Words(_)
Words(s) ==
    LET parts == Split1(s)
    IN  IF Len(parts) < 2 THEN parts
        ELSE <<parts[1]>> \o Words(parts[2])

\* A numeral: digits, then at most one "." or ",", then digits.
IsNumeralText(w) ==
    LET seps == {i \in 1..Len(w) : w[i] \in {".", ","}}
    IN  /\ w # <<>>
        /\ IsDigit(w[1])
        /\ Cardinality(seps) <= 1
        /\ \A i \in 1..Len(w) : IsDigit(w[i]) \/ i \in seps
        /\ \A i \in seps : \A j \in 1..(i - 1) : IsDigit(w[j])

\* An amount token: a numeral, a fraction glyph or a quantity word.
IsAmountText(w) ==
    \/ IsNumeralText(w)
    \/ (Len(w) = 1 /\ w[1] \in Glyphs)
    \/ LowerStr(w) \in {Chars("een"), Chars("hele"), Chars("halve"),
                        Chars("half"), Chars("snuifje")}

NoLineBreak(s) == \A i \in 1..Len(s) : s[i] # "\n"

\* An ingredient name: letters and blanks, a letter first and last.
IsNameText(n) ==
    /\ n # <<>>
    /\ \A i \in 1..Len(n) : Lower(n[i]) \in LowerLetters \/ n[i] = " "
    /\ n[1] # " " /\ n[Len(n)] # " "

\* C3: the unit of every IngredientData _parse_ingredient_line returns is
\* None or one of the canonical codes g, kg, ml, cl, l, el, tl, kl, stuks,
\* teentje, snuifje; no other word is ever given as the unit.
C3_UnitIsCanonicalOrNone ==
    Done("_parse_ingredient_line") =>
        ret.unit = None \/ ret.unit \in CanonicalCodes

\* The case of the fallback: the pattern bound an amount and no unit, and
\* the first word of the name it left is a unit synonym.
FallbackCase(l) ==
    LET m == RegexMatch(l)
    IN  /\ m.matched /\ m.g1 # None /\ m.g2 = None
        /\ Split1(m.g3) # <<>>
        /\ IsSynonym(Split1(m.g3)[1])

\* C4 as claimed: in the fallback case the unit is the canonical code of
\* the name's first word and the name is what follows that word, also
\* when nothing follows it (the name is then empty or None).
C4_FallbackPromotes ==
    Done("_parse_ingredient_line") /\ FallbackCase(line) =>
        LET parts == Split1(RegexMatch(line).g3)
        IN  /\ ret.unit = CanonicalOf[LowerStr(parts[1])]
            /\ IF Len(parts) > 1 THEN ret.name = parts[2]
               ELSE ret.name \in {None, <<>>}

\* C4 amended: in the fallback case, when the name has more than its first
\* word, the unit is that word's canonical code and the name is what
\* follows it; when the name is that word alone nothing is promoted: the
\* unit stays None and the name stays that word.
C4_FallbackPromotesWhenMoreFollows ==
    Done("_parse_ingredient_line") /\ FallbackCase(line) =>
        LET parts == Split1(RegexMatch(line).g3)
        IN  IF Len(parts) > 1
            THEN /\ ret.unit = CanonicalOf[LowerStr(parts[1])]
                 /\ ret.name = parts[2]
            ELSE /\ ret.unit = None
                 /\ ret.name = parts[1]

\* A line "2 . el kip"-like was parsed and its unit was promoted.
C4_Witness ==
    /\ Done("_parse_ingredient_line") /\ FallbackCase(line)
    /\ Len(Split1(RegexMatch(line).g3)) > 1
    /\ ret.unit = Chars("el")
    /\ ret.name = Chars("kip")

\* Where the unit token of a line of blank-separated words stands:
\* word 2 of "<amount> <synonym> <name>", word 1 of "<synonym> <name>",
\* 0 when the line has neither form.
UnitWordIndex(l) ==
    LET w == Words(l)
    IN  IF Len(w) >= 3 /\ IsAmountText(w[1]) /\ IsSynonym(w[2]) THEN 2
        ELSE IF Len(w) >= 2 /\ IsSynonym(w[1]) THEN 1
        ELSE 0

\* C5 as claimed: a line (without line break) that has a unit synonym, in
\* any letter case, as its unit token, after an optional amount token and
\* before the name, gets that synonym's canonical code as unit.
C5_SynonymGivesCanonicalUnit ==
    Done("_parse_ingredient_line") /\ NoLineBreak(line)
        /\ UnitWordIndex(line) # 0 =>
        ret.unit = CanonicalOf[LowerStr(Words(line)[UnitWordIndex(line)])]

\* C5 amended: the same for every line "<amount> <synonym> <name>", and
\* for every line "<synonym> <name>" whose synonym is not snuifje; a
\* leading snuifje without an amount before it is bound as the amount.
C5_SynonymAfterAmountGivesCanonicalUnit ==
    Done("_parse_ingredient_line") /\ NoLineBreak(line)
        /\ UnitWordIndex(line) # 0 =>
        LET w == Words(line)
            k == UnitWordIndex(line)
        IN  IF k = 1 /\ LowerStr(w[1]) = Chars("snuifje")
            THEN ret.amount = w[1]
            ELSE ret.unit = CanonicalOf[LowerStr(w[k])]

\* "3 STUKKEN kip"-like: an upper-case synonym after an amount.
C5_Witness ==
    /\ Done("_parse_ingredient_line")
    /\ UnitWordIndex(line) = 2
    /\ Words(line)[2] = Chars("STUKKEN")
    /\ ret.unit = Chars("stuks")

\* The line is "<glyph> <unit> <name>": one blank each, a unit synonym, a
\* name of letters and blanks.
GlyphLineCase(l) ==
    /\ Len(l) >= 5 /\ l[1] \in Glyphs /\ l[2] = " " /\ l[3] # " "
    /\ LET parts == Split1(SubSeq(l, 3, Len(l)))
       IN  /\ Len(parts) = 2
           /\ IsSynonym(parts[1])
           /\ SubSeq(l, 3, Len(l)) = parts[1] \o <<" ">> \o parts[2]
           /\ IsNameText(parts[2])

\* C6: for each of the 18 fraction glyphs, a line "<glyph> <unit> <name>"
\* gets the table's decimal text as amount, the unit's canonical code as
\* unit and the given name as name.
C6_GlyphGivesDecimal ==
    Done("_parse_ingredient_line") /\ GlyphLineCase(line) =>
        LET parts == Split1(SubSeq(line, 3, Len(line)))
        IN  /\ ret.amount = DecimalOf[line[1]]
            /\ ret.unit = CanonicalOf[LowerStr(parts[1])]
            /\ ret.name = parts[2]

\* The line "2/3 el kip"-like was parsed: amount 0.666667.
C6_Witness ==
    /\ Done("_parse_ingredient_line") /\ GlyphLineCase(line)
    /\ line[1] = "2/3"
    /\ ret.amount = Chars("0.666667")

\* No word character at position p (or the text ends there).
NotWordAt(l, p) == p > Len(l) \/ ~IsWordChar(l[p])

\* A unit token starts at p: a synonym that ends where a word ends.
UnitTokenAt(l, p) ==
    \E u \in DOMAIN CanonicalOf :
        /\ p + Len(u) - 1 <= Len(l)
        /\ LowerStr(SubSeq(l, p, p + Len(u) - 1)) = u
        /\ NotWordAt(l, p + Len(u))

\* The line starts with an amount token: an amount text that ends where a
\* word ends or that a unit token follows directly ("2el").
LeadingAmountToken(l) ==
    \E n \in 1..Len(l) :
        /\ IsAmountText(SubSeq(l, 1, n))
        /\ (NotWordAt(l, n + 1) \/ UnitTokenAt(l, n + 1))

\* C7: a trimmed line with no leading amount token and no leading unit
\* token, whether the pattern matches it or not, gets amount None, unit
\* None and the whole line as name.
C7_NameOnlyLine ==
    Done("_parse_ingredient_line") /\ Strip(line) = line
        /\ ~LeadingAmountToken(line) /\ ~UnitTokenAt(line, 1) =>
        /\ ret.amount = None
        /\ ret.unit = None
        /\ ret.name = line

\* The name "kip rode uien", a line of that form, was parsed.
C7_Witness ==
    /\ Done("_parse_ingredient_line")
    /\ line = Chars("kip rode uien")
    /\ ~LeadingAmountToken(line) /\ ~UnitTokenAt(line, 1)
    /\ ret.amount = None
    /\ ret.name = line

\* C8: a line of digits only gets the line as amount, unit None and name
\* None (not the empty text).
C8_BareNumeral ==
    Done("_parse_ingredient_line") /\ line # <<>>
        /\ (\A i \in 1..Len(line) : IsDigit(line[i])) =>
        /\ ret.amount = line
        /\ ret.unit = None
        /\ ret.name = None

\* The line "152" was parsed.
C8_Witness ==
    /\ Done("_parse_ingredient_line")
    /\ line = Chars("152")
    /\ ret.amount = Chars("152")
    /\ ret.name = None

\* C9: the description _parse_entry returns is the text of the
\* ".recipe-description p" element when the page has one, and the value of
\* the content attribute of <meta name="description"> when the page has
\* only that.
C9_DescriptionFromTextOrContent ==
    Done("_parse_entry") =>
        LET p    == BeautifulSoup(html).select_description_p
            meta == BeautifulSoup(html).find_meta_description
        IN  /\ Truthy(p) => ret.description = get_text(p)
            /\ (~Truthy(p) /\ Truthy(meta) /\ meta.content # None) =>
                   ret.description = meta.content

\* C10: given a text that cannot be parsed as markup, parse fails with an
\* error; it returns neither None nor a record.
C10_MalformedInputFails ==
    Done("parse") /\ html.kind # "markup" => ret = Raised

\* The li Tags of the ingredient list of a page, in document order; none
\* when the page has no div id=ingredients or the div has no ul.
IngredientListItems(doc) ==
    LET div == BeautifulSoup(doc).find_div_ingredients
    IN  IF Truthy(div) /\ Truthy(find(div, "ul"))
        THEN find_all(find(div, "ul"), "li")
        ELSE <<>>

\* The item holds a character that is not whitespace.
NotBlank(li) ==
    \E i \in 1..Len(li.strings) :
        \E k \in 1..Len(li.strings[i]) : ~IsSpace(li.strings[i][k])

\* C11: _parse_ingredients_from_html returns one IngredientData per list
\* item of the ingredients container whose text is not empty after
\* trimming, in document order, each with that trimmed text as raw_text
\* (never empty, no blank at either end); items that are empty after
\* trimming are dropped; without the container or without its list the
\* result is the empty sequence and nothing is raised.
C11_OnePerNonEmptyItem ==
    Done("_parse_ingredients_from_html") /\ html.kind # "rejected" =>
        LET kept == SelectSeq(IngredientListItems(html), NotBlank)
        IN  /\ ret # Raised
            /\ Len(ret.ingredients) = Len(kept)
            /\ \A i \in 1..Len(kept) :
                   /\ ret.ingredients[i].raw_text = get_text(kept[i])
                   /\ ret.ingredients[i].raw_text # <<>>
                   /\ Strip(ret.ingredients[i].raw_text)
                          = ret.ingredients[i].raw_text

\* A list of an empty item followed by "2 el olie" gave one ingredient.
C11_Witness ==
    /\ Done("_parse_ingredients_from_html")
    /\ Len(IngredientListItems(html)) = 2
    /\ ~NotBlank(IngredientListItems(html)[1])
    /\ Len(ret.ingredients) = 1
    /\ ret.ingredients[1].raw_text = Chars("2 el olie")

\* C12: the IngredientData _parse_ingredient_line returns for a line L has
\* raw_text equal to L, and the call on that raw_text returns the same
\* amount, unit and name (and raw_text) as the first call.
C12_ReparseGivesSameTriple ==
    [][(pc = "done" /\ pc' = "reparsed") =>
           /\ ret.raw_text = line
           /\ ret'.raw_text = ret.raw_text
           /\ ret'.amount = ret.amount
           /\ ret'.unit = ret.unit
           /\ ret'.name = ret.name]_vars

\* The raw_text of a line of a blank, a fraction glyph and a unit was parsed
\* again: the amount is the decimal text again, the leading blank is kept.
C12_Witness ==
    /\ pc = "reparsed"
    /\ Len(line) > 3 /\ line[1] = " " /\ line[2] \in Glyphs
    /\ ret.raw_text = line
    /\ ret.amount = fraction_map[line[2]]
    /\ ret.unit # None

\* The step numbers are 1, 2, ..., n in order and no instruction is empty
\* after trimming.
NumberedAndNonEmpty(steps) ==
    \A i \in 1..Len(steps) :
        /\ steps[i].step_number = i
        /\ Strip(steps[i].instruction) # <<>>

\* C13: in the steps _parse_instructions returns, and in the steps of
\* every record parse returns, the numbers are exactly 1, 2, ..., n in
\* document order, and every step has an instruction that is not empty
\* after trimming.
C13_StepsNumberedAndNonEmpty ==
    /\ Done("_parse_instructions") => NumberedAndNonEmpty(ret.steps)
    /\ (Done("parse") /\ ret # NoneRet /\ ret # Raised) =>
           NumberedAndNonEmpty(ret.instructions_data)

\* main has ended, by a return or by an exception.
MainEnded == called = "main" /\ pc \in {"done", "raised"}

\* C14: in main the parser is given the fetched markup and the url: when
\* the recipe is not stored yet and the fetched page is a valid recipe,
\* save_recipe_to_db is called with a record whose src_url is the url that
\* was fetched; when parse reports no recipe or the recipe is stored
\* already, save_recipe_to_db is not called.
C14_ValidPageIsSavedWithUrl ==
    MainEnded =>
        /\ (~exists /\ html # NotFetched
               /\ parse(<<html, url>>) \notin {NoneRet, Raised}) =>
               /\ Len(saved) = 1
               /\ saved[1].cookbook_entry_data.src_url = url
        /\ (exists \/ (html # NotFetched /\ parse(<<html, url>>) = NoneRet))
               => saved = <<>>

====
